---- MODULE Spec2Model ----
(***************************************************************************)
(* Question store API (GET/POST/PUT /api/questions, DELETE                 *)
(* /api/questions/[id]) and the admin editor page that drives it.          *)
(*                                                                         *)
(* The store is two tables, questions and question_options.  Every         *)
(* handler is a sequence of awaited store statements; a request in flight  *)
(* carries its position (pc) between statements.                           *)
(*                                                                         *)
(* Encoding of JavaScript values:                                          *)
(*   - a string is a sequence of one-character strings, so that trim()     *)
(*     is computed and not assumed;                                        *)
(*   - numbers are integers; JSON null / SQL NULL is the integer Null and  *)
(*     an absent property is the integer Undefined (both negative and      *)
(*     different from every id and from the -1 "flow complete" sentinel);  *)
(*   - a null in a label position is the one-element sequence NullLabel.   *)
(* Of the scalar columns of a question, `text` and `type` stand for the     *)
(* required ones (field, text, type: written as sent) and                  *)
(* `next_question_id` for the optional ones (written `value ?? default`).  *)
(***************************************************************************)
EXTENDS Integers, Sequences, FiniteSets, TLC

VARIABLES
    questions,          \* table questions: set of rows
    question_options,   \* table question_options: set of rows
    reqs,               \* requests in flight, in arrival order
    nreq,               \* number of requests composed so far
    last,               \* summary of the request completed most recently
    uiQuestions,        \* page state: const [questions, setQuestions]
    editModalOpen,      \* page state: const [editModalOpen, ...]
    selectedQuestion,   \* page state: const [selectedQuestion, ...];
                        \* <<>> is null, <<q>> the working copy q
    nedits              \* number of edits the user has made in the form

vars == <<questions, question_options, reqs, nreq, last,
          uiQuestions, editModalOpen, selectedQuestion, nedits>>

storeVars == <<questions, question_options>>
uiVars == <<uiQuestions, editModalOpen, selectedQuestion, nedits>>

----------------------------------------------------------------------------
(* Bounds *)

MaxRequests == 2    \* requests composed by clients in one behaviour
MaxQId == 2         \* question ids a client may name in a request
MaxOptId == 2       \* option ids a client may name in a request
MaxOpts == 2        \* options carried by one request / working copy

----------------------------------------------------------------------------
(* Values *)

Null == -8
Undefined == -9

NullLabel == <<"null">>
Whitespace == {" ", "\t"}

LabelA == <<"A">>
LabelB == <<"B", "2">>
LabelBlank == <<" ", " ">>
LabelEmpty == <<>>
NewOptionLabel == <<"N", "e", "w", " ", "O", "p", "t", "i", "o", "n">>

RECURSIVE TrimStart(_)
TrimStart(s) ==
    IF s # <<>> /\ Head(s) \in Whitespace THEN TrimStart(Tail(s)) ELSE s

RECURSIVE TrimEnd(_)
TrimEnd(s) ==
    IF s # <<>> /\ s[Len(s)] \in Whitespace
    THEN TrimEnd(SubSeq(s, 1, Len(s) - 1))
    ELSE s

\* String.prototype.trim
Trim(s) == TrimEnd(TrimStart(s))

\* a ?? b
Coalesce(a, b) == IF a = Undefined \/ a = Null THEN b ELSE a

Max(S) == CHOOSE x \in S : \A y \in S : y <= x

RECURSIVE SortedSeq(_)
\* the elements of a finite set of integers, ascending
SortedSeq(S) ==
    IF S = {} THEN <<>>
    ELSE LET m == Max(S) IN Append(SortedSeq(S \ {m}), m)

Range(s) == {s[i] : i \in 1..Len(s)}

----------------------------------------------------------------------------
(* The store *)

QuestionIds(qs) == {q.id : q \in qs}
OptionIds(os) == {o.id : o \in os}
OptionsOf(os, qid) == {o \in os : o.question_id = qid}
OptionRow(os, id) == CHOOSE o \in os : o.id = id

\* rowid given to a row inserted without one
NextRowid(ids) == IF ids = {} THEN 1 ELSE Max(ids) + 1

\* question_options.question_id: NOT NULL, REFERENCES questions(id)
ForeignKeyOk(qs, qid) == qid # Null /\ qid \in QuestionIds(qs)

\* INSERT INTO questions (...) VALUES (...)
InsertQuestion(qs, text, type, nq) ==
    LET id == NextRowid(QuestionIds(qs)) IN
    [ok |-> TRUE,
     q |-> qs \cup {[id |-> id, text |-> text, type |-> type,
                     next_question_id |-> nq]},
     lastInsertRowid |-> id]

\* UPDATE questions SET ... WHERE id = ?
UpdateQuestion(qs, id, text, type, nq) ==
    {IF q.id = id
     THEN [id |-> q.id, text |-> text, type |-> type,
           next_question_id |-> nq]
     ELSE q : q \in qs}

\* INSERT INTO question_options (question_id, label, ...) VALUES (...)
InsertOption(qs, os, qid, label, nq, pm) ==
    LET id == NextRowid(OptionIds(os)) IN
    IF ~ForeignKeyOk(qs, qid)
    THEN [ok |-> FALSE, o |-> os, lastInsertRowid |-> Null]
    ELSE [ok |-> TRUE,
          o |-> os \cup {[id |-> id, question_id |-> qid, label |-> label,
                          next_question_id |-> nq, price_modifier |-> pm]},
          lastInsertRowid |-> id]

\* variant: a conflicting row is replaced by a row under a fresh rowid
\* (INSERT OR REPLACE without the id column)
UpsertOptionReplace(qs, os, id, qid, label, nq, pm) ==
    LET res == InsertOption(qs, os, qid, label, nq, pm) IN
    IF id = Null
    THEN res
    ELSE IF id \in OptionIds(os)
    THEN [res EXCEPT !.o = {o \in res.o : o.id # id}]
    ELSE IF ~ForeignKeyOk(qs, qid)
    THEN [ok |-> FALSE, o |-> os, lastInsertRowid |-> Null]
    ELSE [ok |-> TRUE,
          o |-> os \cup {[id |-> id, question_id |-> qid, label |-> label,
                          next_question_id |-> nq, price_modifier |-> pm]},
          lastInsertRowid |-> id]

\* INSERT INTO question_options (id, question_id, ...) VALUES (...)
\*   ON CONFLICT(id) DO UPDATE SET label = excluded.label, ...
UpsertOption(qs, os, id, qid, label, nq, pm) ==
    IF id = Null
    THEN InsertOption(qs, os, qid, label, nq, pm)
    ELSE IF qid = Null
    THEN [ok |-> FALSE, o |-> os, lastInsertRowid |-> Null]
    ELSE IF id \in OptionIds(os)
    THEN [ok |-> TRUE,
          o |-> {IF o.id = id
                 THEN [id |-> o.id, question_id |-> o.question_id,
                       label |-> label, next_question_id |-> nq,
                       price_modifier |-> pm]
                 ELSE o : o \in os},
          lastInsertRowid |-> Null]
    ELSE IF ~ForeignKeyOk(qs, qid)
    THEN [ok |-> FALSE, o |-> os, lastInsertRowid |-> Null]
    ELSE [ok |-> TRUE,
          o |-> os \cup {[id |-> id, question_id |-> qid, label |-> label,
                          next_question_id |-> nq, price_modifier |-> pm]},
          lastInsertRowid |-> id]

\* variant: the DELETE of step 3 matches no row
DeleteOptionsNone(os, qid, seenIds) == os

\* DELETE FROM question_options WHERE question_id = ? AND id NOT IN (...)
DeleteOptionsNotIn(os, qid, seenIds) ==
    {o \in os : ~(o.question_id = qid /\ o.id \notin Range(seenIds))}

\* variant: the foreign key has no ON DELETE CASCADE
CascadeDeleteNone(os, qid) == os

\* ON DELETE CASCADE of question_options.question_id
CascadeDelete(os, qid) == {o \in os : o.question_id # qid}

\* DELETE FROM questions WHERE id = ?
DeleteQuestion(qs, os, id) ==
    [q |-> {q \in qs : q.id # id},
     o |-> IF id \in QuestionIds(qs) THEN CascadeDelete(os, id) ELSE os]

----------------------------------------------------------------------------
(* GET /api/questions *)

JsonObject(id, label, nq, pm) ==
    [id |-> id, label |-> label, next_question_id |-> nq, price_modifier |-> pm]

\* json_group_array(json_object(...)) over the rows of
\* questions q LEFT JOIN question_options o, grouped by q.id: a question
\* without options still has one joined row, whose o.* columns are NULL
JsonGroupArray(os, qid) ==
    LET mine == OptionsOf(os, qid)
        ids == SortedSeq(OptionIds(mine))
    IN  IF mine = {}
        THEN [null |-> FALSE,
              json |-> <<JsonObject(Null, NullLabel, Null, Null)>>]
        ELSE [null |-> FALSE,
              json |-> [i \in 1..Len(ids) |->
                          LET o == OptionRow(mine, ids[i]) IN
                          JsonObject(o.id, o.label, o.next_question_id,
                                     o.price_modifier)]]

\* options: row.options ? JSON.parse(String(row.options)) : []
ParseOptions(col) == IF col.null THEN <<>> ELSE col.json

\* rows.map((row) => ({...}))
ListQuestions(qs, os) ==
    LET ids == SortedSeq(QuestionIds(qs)) IN
    [i \in 1..Len(ids) |->
        LET q == CHOOSE x \in qs : x.id = ids[i] IN
        [id |-> q.id, text |-> q.text, type |-> q.type,
         next_question_id |-> q.next_question_id,
         options |-> ParseOptions(JsonGroupArray(os, q.id))]]

----------------------------------------------------------------------------
(* Requests *)

NoTables == [set |-> FALSE, q |-> {}, o |-> {}]
Tables == [set |-> TRUE, q |-> questions, o |-> question_options]

NewReq(rid, origin, method, body, first) ==
    [rid |-> rid, origin |-> origin, method |-> method, body |-> body,
     pc |-> "sent", i |-> 1, seenIds |-> <<>>, qId |-> Null,
     pre |-> NoTables, first |-> first, nDone |-> 0,
     status |-> 0, error |-> "", out |-> <<>>]

\* body.options ?? []
Opts(body) == IF body.noOptions THEN <<>> ELSE body.options

\* variant: the label is tested without trim()
HasBlankLabelUntrimmed(body) ==
    \E i \in 1..Len(Opts(body)) : Opts(body)[i].label = <<>>

\* body.options?.some(opt => !opt.label.trim())
HasBlankLabel(body) ==
    \E i \in 1..Len(Opts(body)) : Trim(Opts(body)[i].label) = <<>>

\* return NextResponse.json(out, { status })
Finish(r, status, error, out) ==
    [r EXCEPT !.pc = "done", !.status = status, !.error = error, !.out = out]

Started(r) ==
    [r EXCEPT !.pre = [set |-> TRUE, q |-> questions, o |-> question_options]]

StatementPcs == {"insertQ", "insertOpt", "selectCreated",
                 "updateQ", "upsert", "delete", "select", "deleteQ"}

Active(k) == reqs[k].pc \in StatementPcs
Idx == 1..Len(reqs)

----------------------------------------------------------------------------
(* POST /api/questions *)

PostValidate(k) ==
    /\ reqs[k].method = "POST" /\ reqs[k].pc = "sent"
    /\ LET r == Started(reqs[k]) IN
       reqs' = [reqs EXCEPT ![k] =
                  IF HasBlankLabel(r.body)
                  THEN Finish(r, 400, "Option labels cannot be empty", <<>>)
                  ELSE [r EXCEPT !.pc = "insertQ"]]
    /\ UNCHANGED <<storeVars, nreq, last, uiVars>>

PostInsertQuestion(k) ==
    /\ reqs[k].method = "POST" /\ reqs[k].pc = "insertQ"
    /\ LET r == reqs[k]
           res == InsertQuestion(questions, r.body.text, r.body.type,
                                 Coalesce(r.body.next_question_id, Null))
       IN  /\ questions' = res.q
           /\ reqs' = [reqs EXCEPT ![k] =
                        [r EXCEPT !.qId = res.lastInsertRowid,
                                  !.nDone = r.nDone + 1,
                                  !.i = 1,
                                  !.pc = IF Len(Opts(r.body)) > 0
                                         THEN "insertOpt"
                                         ELSE "selectCreated"]]
    /\ UNCHANGED <<question_options, nreq, last, uiVars>>

PostInsertOption(k) ==
    /\ reqs[k].method = "POST" /\ reqs[k].pc = "insertOpt"
    /\ LET r == reqs[k]
           o == Opts(r.body)[r.i]
           res == InsertOption(questions, question_options, r.qId, o.label,
                               Coalesce(o.next_question_id, Null),
                               Coalesce(o.price_modifier, 0))
       IN  /\ question_options' = res.o
           /\ reqs' = [reqs EXCEPT ![k] =
                        IF ~res.ok
                        THEN Finish(r, 500, "store", <<>>)
                        ELSE [r EXCEPT !.nDone = r.nDone + 1,
                                       !.i = r.i + 1,
                                       !.pc = IF r.i = Len(Opts(r.body))
                                              THEN "selectCreated"
                                              ELSE "insertOpt"]]
    /\ UNCHANGED <<questions, nreq, last, uiVars>>

PostSelectCreated(k) ==
    /\ reqs[k].method = "POST" /\ reqs[k].pc = "selectCreated"
    /\ LET r == reqs[k]
           rows == {q \in questions : q.id = r.qId}
       IN  reqs' = [reqs EXCEPT ![k] =
                      Finish([r EXCEPT !.nDone = r.nDone + 1], 201, "",
                             IF rows = {} THEN <<>>
                             ELSE <<CHOOSE q \in rows : TRUE>>)]
    /\ UNCHANGED <<storeVars, nreq, last, uiVars>>

----------------------------------------------------------------------------
(* PUT /api/questions *)

PutValidate(k) ==
    /\ reqs[k].method = "PUT" /\ reqs[k].pc = "sent"
    /\ LET r == Started(reqs[k]) IN
       reqs' = [reqs EXCEPT ![k] =
                  IF r.body.id = Undefined
                  THEN Finish(r, 400, "id is required for PUT", <<>>)
                  ELSE IF HasBlankLabel(r.body)
                  THEN Finish(r, 400, "Option labels cannot be empty", <<>>)
                  ELSE [r EXCEPT !.pc = "updateQ"]]
    /\ UNCHANGED <<storeVars, nreq, last, uiVars>>

\* variant: the DELETE of step 3 is not guarded by seenIds.length
AfterUpsertsUnguarded(r) == [r EXCEPT !.pc = "delete"]

\* if (seenIds.length) { DELETE ... } return NextResponse.json({ ok: true })
AfterUpserts(r) ==
    IF Len(r.seenIds) > 0
    THEN [r EXCEPT !.pc = "delete"]
    ELSE Finish(r, 200, "", <<>>)

PutUpdateQuestion(k) ==
    /\ reqs[k].method = "PUT" /\ reqs[k].pc = "updateQ"
    /\ LET r == reqs[k]
           r1 == [r EXCEPT !.nDone = r.nDone + 1, !.i = 1, !.seenIds = <<>>]
       IN  /\ questions' = UpdateQuestion(questions, r.body.id, r.body.text,
                                r.body.type,
                                Coalesce(r.body.next_question_id, Null))
           /\ reqs' = [reqs EXCEPT ![k] =
                        IF Len(Opts(r.body)) > 0
                        THEN [r1 EXCEPT !.pc = "upsert"]
                        ELSE AfterUpserts(r1)]
    /\ UNCHANGED <<question_options, nreq, last, uiVars>>

PutUpsertOption(k) ==
    /\ reqs[k].method = "PUT" /\ reqs[k].pc = "upsert"
    /\ LET r == reqs[k]
           o == Opts(r.body)[r.i]
           res == UpsertOption(questions, question_options,
                               Coalesce(o.id, Null), r.body.id, o.label,
                               Coalesce(o.next_question_id, Null),
                               Coalesce(o.price_modifier, 0))
           newId == Coalesce(o.id, res.lastInsertRowid)
           r1 == [r EXCEPT !.nDone = r.nDone + 1, !.i = r.i + 1,
                           !.seenIds = Append(r.seenIds, newId)]
       IN  /\ question_options' = res.o
           /\ reqs' = [reqs EXCEPT ![k] =
                        IF ~res.ok
                        THEN Finish(r, 500, "store", <<>>)
                        ELSE IF r.i < Len(Opts(r.body))
                        THEN r1
                        ELSE AfterUpserts(r1)]
    /\ UNCHANGED <<questions, nreq, last, uiVars>>

PutDeleteStale(k) ==
    /\ reqs[k].method = "PUT" /\ reqs[k].pc = "delete"
    /\ LET r == reqs[k] IN
       /\ question_options' =
              DeleteOptionsNotIn(question_options, r.body.id, r.seenIds)
       /\ reqs' = [reqs EXCEPT ![k] =
                    Finish([r EXCEPT !.nDone = r.nDone + 1], 200, "", <<>>)]
    /\ UNCHANGED <<questions, nreq, last, uiVars>>

----------------------------------------------------------------------------
(* GET /api/questions and DELETE /api/questions/[id] *)

GetSelect(k) ==
    /\ reqs[k].method = "GET" /\ reqs[k].pc = "sent"
    /\ reqs' = [reqs EXCEPT ![k] =
                  Finish([Started(reqs[k]) EXCEPT !.nDone = 1], 200, "",
                         ListQuestions(questions, question_options))]
    /\ UNCHANGED <<storeVars, nreq, last, uiVars>>

DeleteExecute(k) ==
    /\ reqs[k].method = "DELETE" /\ reqs[k].pc = "sent"
    /\ LET res == DeleteQuestion(questions, question_options,
                                 reqs[k].body.id)
       IN  /\ questions' = res.q
           /\ question_options' = res.o
    /\ reqs' = [reqs EXCEPT ![k] =
                  Finish([Started(reqs[k]) EXCEPT !.nDone = 1], 200, "", <<>>)]
    /\ UNCHANGED <<nreq, last, uiVars>>

\* variant: the handler's statements run in one transaction, rolled back
\* by the catch block
StoreErrorRollsBack(k) ==
    /\ Active(k)
    /\ questions' = reqs[k].pre.q
    /\ question_options' = reqs[k].pre.o
    /\ reqs' = [reqs EXCEPT ![k] = Finish(reqs[k], 500, "store", <<>>)]
    /\ UNCHANGED <<nreq, last, uiVars>>

\* catch (err) { ... return NextResponse.json({ error }, { status: 500 }) }
\* the statement the request is about to run fails in the store
StoreError(k) ==
    /\ \/ Active(k)
       \/ reqs[k].pc = "sent" /\ reqs[k].method \in {"GET", "DELETE"}
    /\ reqs' = [reqs EXCEPT ![k] =
                  Finish(IF reqs[k].pc = "sent" THEN Started(reqs[k])
                         ELSE reqs[k], 500, "store", <<>>)]
    /\ UNCHANGED <<storeVars, nreq, last, uiVars>>

----------------------------------------------------------------------------
(* Requests an API client may send *)

\* scalar columns of a request body: all set, or the optional ones absent
ScalarSamples ==
    {[text |-> "t1", type |-> "text", next_question_id |-> -1],
     [text |-> "t2", type |-> "radio", next_question_id |-> Undefined]}

\* OptionIn without its id: optional fields absent or null, or all set, or
\* a blank label
OptionSamples ==
    {[label |-> LabelA, next_question_id |-> Undefined,
      price_modifier |-> Null],
     [label |-> LabelB, next_question_id |-> -1, price_modifier |-> 5],
     [label |-> LabelBlank, next_question_id |-> Undefined,
      price_modifier |-> Undefined],
     [label |-> LabelEmpty, next_question_id |-> Null,
      price_modifier |-> Undefined]}

OptionIn(ids) ==
    {[id |-> id, label |-> s.label,
      next_question_id |-> s.next_question_id,
      price_modifier |-> s.price_modifier] : id \in ids, s \in OptionSamples}

OptionLists(ids) == UNION {[1..n -> OptionIn(ids)] : n \in 0..MaxOpts}

QuestionIn(qids, oids) ==
    {[id |-> id, text |-> s.text, type |-> s.type,
      next_question_id |-> s.next_question_id,
      noOptions |-> FALSE, options |-> os]
        : id \in qids, s \in ScalarSamples, os \in OptionLists(oids)}
    \cup
    {[id |-> id, text |-> s.text, type |-> s.type,
      next_question_id |-> s.next_question_id,
      noOptions |-> TRUE, options |-> <<>>]
        : id \in qids, s \in ScalarSamples}

NoBody(id) ==
    [id |-> id, text |-> "", type |-> "text",
     next_question_id |-> Undefined, noOptions |-> TRUE, options |-> <<>>]

PostBodies == QuestionIn({Undefined}, {Undefined})
PutBodies == QuestionIn({Undefined, Null} \cup 1..MaxQId,
                        {Undefined} \cup 1..MaxOptId)

Summary(r) ==
    [method |-> r.method, status |-> r.status, qId |-> r.qId,
     nopts |-> Len(Opts(r.body))]

NoSummary == [method |-> "none", status |-> 0, qId |-> Null, nopts |-> 0]

Send(origin, method, body) ==
    /\ nreq < MaxRequests
    /\ nreq' = nreq + 1
    /\ reqs' = Append(reqs, NewReq(nreq + 1, origin, method, body, NoTables))

ClientPost ==
    /\ reqs = <<>>
    /\ \E b \in PostBodies : Send("api", "POST", b)
    /\ UNCHANGED <<storeVars, last, uiVars>>

ClientPut ==
    /\ reqs = <<>>
    /\ \E b \in PutBodies : Send("api", "PUT", b)
    /\ UNCHANGED <<storeVars, last, uiVars>>

ClientGet ==
    /\ reqs = <<>>
    /\ Send("api", "GET", NoBody(Undefined))
    /\ UNCHANGED <<storeVars, last, uiVars>>

ClientDelete ==
    /\ reqs = <<>>
    /\ \E id \in 1..MaxQId : Send("api", "DELETE", NoBody(id))
    /\ UNCHANGED <<storeVars, last, uiVars>>

\* the client takes the response
ClientReceive ==
    /\ reqs # <<>> /\ reqs[1].origin = "api" /\ reqs[1].pc = "done"
    /\ last' = Summary(reqs[1])
    /\ reqs' = Tail(reqs)
    /\ UNCHANGED <<storeVars, nreq, uiVars>>

\* the client takes the {ok: true} of a PUT and submits the same body once
\* more; `first` keeps the tables as the first submission left them
ClientPutAgain ==
    /\ reqs # <<>> /\ reqs[1].origin = "api" /\ reqs[1].pc = "done"
    /\ reqs[1].method = "PUT" /\ reqs[1].status = 200
    /\ ~reqs[1].first.set
    /\ last' = Summary(reqs[1])
    /\ reqs' = <<NewReq(reqs[1].rid, "api", "PUT", reqs[1].body, Tables)>>
    /\ UNCHANGED <<storeVars, nreq, uiVars>>

----------------------------------------------------------------------------
(* The API under arbitrary clients, one request at a time *)

Init ==
    /\ questions = {}
    /\ question_options = {}
    /\ reqs = <<>>
    /\ nreq = 0
    /\ last = NoSummary
    /\ uiQuestions = <<>>
    /\ editModalOpen = FALSE
    /\ selectedQuestion = <<>>
    /\ nedits = 0

Next ==
    \/ ClientPost
    \/ ClientPut
    \/ ClientGet
    \/ ClientDelete
    \/ ClientReceive
    \/ ClientPutAgain
    \/ \E k \in Idx : PostValidate(k)
    \/ \E k \in Idx : PostInsertQuestion(k)
    \/ \E k \in Idx : PostInsertOption(k)
    \/ \E k \in Idx : PostSelectCreated(k)
    \/ \E k \in Idx : PutValidate(k)
    \/ \E k \in Idx : PutUpdateQuestion(k)
    \/ \E k \in Idx : PutUpsertOption(k)
    \/ \E k \in Idx : PutDeleteStale(k)
    \/ \E k \in Idx : GetSelect(k)
    \/ \E k \in Idx : DeleteExecute(k)
    \/ \E k \in Idx : StoreError(k)

Spec == Init /\ [][Next]_vars

----------------------------------------------------------------------------
(* The admin page, src/app/admin/questions/page.tsx *)

MaxUiRequests == 3  \* requests the page issues in one behaviour
MaxEdits == 2       \* edits the user makes in the form in one behaviour

blankQuestion ==
    [id |-> Undefined, text |-> "", type |-> "text",
     next_question_id |-> Null, options |-> <<>>]

\* JSON.stringify(selectedQuestion)
Stringify(q) ==
    [id |-> q.id, text |-> q.text, type |-> q.type,
     next_question_id |-> q.next_question_id,
     noOptions |-> FALSE, options |-> q.options]

\* res.ok
Ok(status) == status \in 200..299

Remove(k) ==
    [i \in 1..(Len(reqs) - 1) |-> IF i < k THEN reqs[i] ELSE reqs[i + 1]]

Selected == selectedQuestion[1]

\* the modal is rendered with the form of the working copy
FormShown == editModalOpen /\ selectedQuestion # <<>>

\* the options table is rendered for radio and dropdown questions
OptionsShown == FormShown /\ Selected.type \in {"radio", "dropdown"}

\* what the user puts into the form
UiInputs == {<<"text", "t1">>, <<"type", "radio">>}
UiLabels == {LabelA, LabelBlank}

\* variant: the labels of the working copy are tested without trim()
SaveCheckUntrimmed(q) ==
    LET bad == {i \in 1..Len(q.options) :
                    \/ q.options[i].label = NullLabel
                    \/ q.options[i].label = <<>>}
        first == CHOOSE i \in bad : \A j \in bad : i <= j
    IN  IF bad = {} THEN "send"
        ELSE IF q.options[first].label = NullLabel THEN "throw"
        ELSE "alert"

\* selectedQuestion.options.some(opt => !opt.label.trim()): "send" when no
\* label is blank, "alert" when a blank label is met, "throw" when a null
\* label is met first (trim of null)
SaveCheck(q) ==
    LET bad == {i \in 1..Len(q.options) :
                    \/ q.options[i].label = NullLabel
                    \/ Trim(q.options[i].label) = <<>>}
        first == CHOOSE i \in bad : \A j \in bad : i <= j
    IN  IF bad = {} THEN "send"
        ELSE IF q.options[first].label = NullLabel THEN "throw"
        ELSE "alert"

\* setQuestions(Array.isArray(data) ? data : []) once the GET has answered
FetchResponse(k) ==
    /\ reqs[k].origin = "fetch" /\ reqs[k].pc = "done"
    /\ uiQuestions' = IF reqs[k].status = 200 THEN reqs[k].out ELSE <<>>
    /\ reqs' = Remove(k)
    /\ last' = Summary(reqs[k])
    /\ UNCHANGED <<storeVars, nreq, editModalOpen, selectedQuestion, nedits>>

OpenEditModal ==
    /\ ~editModalOpen
    /\ \E i \in 1..Len(uiQuestions) :
          selectedQuestion' = <<uiQuestions[i]>>
    /\ editModalOpen' = TRUE
    /\ UNCHANGED <<storeVars, reqs, nreq, last, uiQuestions, nedits>>

OpenAddModal ==
    /\ ~editModalOpen
    /\ selectedQuestion' = <<blankQuestion>>
    /\ editModalOpen' = TRUE
    /\ UNCHANGED <<storeVars, reqs, nreq, last, uiQuestions, nedits>>

\* onClose={() => setEditModalOpen(false)}
CloseModal ==
    /\ editModalOpen
    /\ editModalOpen' = FALSE
    /\ UNCHANGED <<storeVars, reqs, nreq, last, uiQuestions,
                   selectedQuestion, nedits>>

HandleInputChange ==
    /\ FormShown
    /\ \E f \in UiInputs :
          selectedQuestion' =
              <<IF f[1] = "text" THEN [Selected EXCEPT !.text = f[2]]
                ELSE [Selected EXCEPT !.type = f[2]]>>
    /\ nedits < MaxEdits /\ nedits' = nedits + 1
    /\ UNCHANGED <<storeVars, reqs, nreq, last, uiQuestions, editModalOpen>>

HandleOptionChange ==
    /\ OptionsShown
    /\ \E idx \in 1..Len(Selected.options), v \in UiLabels :
          selectedQuestion' = <<[Selected EXCEPT !.options[idx].label = v]>>
    /\ nedits < MaxEdits /\ nedits' = nedits + 1
    /\ UNCHANGED <<storeVars, reqs, nreq, last, uiQuestions, editModalOpen>>

AddOption ==
    /\ OptionsShown
    /\ Len(Selected.options) < MaxOpts
    /\ selectedQuestion' =
          <<[Selected EXCEPT !.options =
                Append(@, [id |-> Undefined, label |-> NewOptionLabel,
                           next_question_id |-> Null,
                           price_modifier |-> 0])]>>
    /\ nedits < MaxEdits /\ nedits' = nedits + 1
    /\ UNCHANGED <<storeVars, reqs, nreq, last, uiQuestions, editModalOpen>>

RemoveOption ==
    /\ OptionsShown
    /\ \E idx \in 1..Len(Selected.options) :
          selectedQuestion' =
              <<[Selected EXCEPT !.options =
                    [i \in 1..(Len(@) - 1) |->
                        IF i < idx THEN @[i] ELSE @[i + 1]]]>>
    /\ nedits < MaxEdits /\ nedits' = nedits + 1
    /\ UNCHANGED <<storeVars, reqs, nreq, last, uiQuestions, editModalOpen>>

\* saveQuestion up to its await fetch(...)
SaveQuestion ==
    /\ FormShown
    /\ IF SaveCheck(Selected) = "send"
       THEN /\ nreq < MaxUiRequests
            /\ nreq' = nreq + 1
            /\ reqs' = Append(reqs,
                   NewReq(nreq + 1, "save",
                          IF Selected.id \notin {Undefined, Null, 0}
                          THEN "PUT" ELSE "POST",
                          Stringify(Selected), NoTables))
       ELSE UNCHANGED <<reqs, nreq>>
    /\ UNCHANGED <<storeVars, last, uiVars>>

\* variant: the modal is closed and the list fetched whatever the response
SaveResponseAlwaysCloses(k) ==
    /\ reqs[k].origin = "save" /\ reqs[k].pc = "done"
    /\ last' = Summary(reqs[k])
    /\ nreq < MaxUiRequests
    /\ nreq' = nreq + 1
    /\ editModalOpen' = FALSE
    /\ reqs' = Append(Remove(k),
           NewReq(nreq + 1, "fetch", "GET", NoBody(Undefined), NoTables))
    /\ UNCHANGED <<storeVars, uiQuestions, selectedQuestion, nedits>>

\* saveQuestion from the response on: if (res.ok) { setEditModalOpen(false);
\* await fetchQuestions() } else { console.error(...) }
SaveResponse(k) ==
    /\ reqs[k].origin = "save" /\ reqs[k].pc = "done"
    /\ last' = Summary(reqs[k])
    /\ IF Ok(reqs[k].status)
       THEN /\ nreq < MaxUiRequests
            /\ nreq' = nreq + 1
            /\ editModalOpen' = FALSE
            /\ reqs' = Append(Remove(k),
                   NewReq(nreq + 1, "fetch", "GET", NoBody(Undefined),
                          NoTables))
       ELSE /\ reqs' = Remove(k)
            /\ UNCHANGED <<nreq, editModalOpen>>
    /\ UNCHANGED <<storeVars, uiQuestions, selectedQuestion, nedits>>

\* the server takes up a request only when it is running no other one
Serial(k) == \A j \in Idx : j # k => ~Active(j)

\* what the database holds when the page is opened
SeedStores ==
    {[q |-> {}, o |-> {}],
     [q |-> {[id |-> 1, text |-> "t2", type |-> "radio",
              next_question_id |-> Null]},
      o |-> {}],
     [q |-> {[id |-> 1, text |-> "t2", type |-> "radio",
              next_question_id |-> Null]},
      o |-> {[id |-> 1, question_id |-> 1, label |-> LabelA,
              next_question_id |-> -1, price_modifier |-> 0]}]}

\* useEffect(() => { fetchQuestions() }, [])
InitUI ==
    /\ \E st \in SeedStores : questions = st.q /\ question_options = st.o
    /\ reqs = <<NewReq(1, "fetch", "GET", NoBody(Undefined), NoTables)>>
    /\ nreq = 1
    /\ last = NoSummary
    /\ uiQuestions = <<>>
    /\ editModalOpen = FALSE
    /\ selectedQuestion = <<>>
    /\ nedits = 0

NextUI ==
    \/ OpenEditModal
    \/ OpenAddModal
    \/ CloseModal
    \/ HandleInputChange
    \/ HandleOptionChange
    \/ AddOption
    \/ RemoveOption
    \/ SaveQuestion
    \/ \E k \in Idx : SaveResponse(k)
    \/ \E k \in Idx : FetchResponse(k)
    \/ \E k \in Idx : Serial(k) /\ PostValidate(k)
    \/ \E k \in Idx : PostInsertQuestion(k)
    \/ \E k \in Idx : PostInsertOption(k)
    \/ \E k \in Idx : PostSelectCreated(k)
    \/ \E k \in Idx : Serial(k) /\ PutValidate(k)
    \/ \E k \in Idx : PutUpdateQuestion(k)
    \/ \E k \in Idx : PutUpsertOption(k)
    \/ \E k \in Idx : PutDeleteStale(k)
    \/ \E k \in Idx : Serial(k) /\ GetSelect(k)
    \/ \E k \in Idx : StoreError(k)

SpecUI == InitUI /\ [][NextUI]_vars

----------------------------------------------------------------------------
(* Two updates of one question in flight at once: each handler awaits its  *)
(* statements one by one, and the store runs the statements of the two     *)
(* requests in whatever order they arrive                                  *)

\* bodies of an update of question q that passes validation and carries
\* options; the scalar columns, which step 1 writes to the question row
\* only, are those of one sample
ParBodies(q) ==
    {b \in QuestionIn({q}, {Undefined} \cup 1..MaxOptId) :
        /\ Len(Opts(b)) > 0 /\ ~HasBlankLabel(b)
        /\ b.next_question_id = Undefined}

\* a client sends two PUTs for one existing question without awaiting the
\* first; `first` keeps the tables as they are when the two are sent
ClientPutPair ==
    /\ reqs = <<>>
    /\ nreq + 2 <= MaxRequests
    /\ nreq' = nreq + 2
    /\ \E q \in QuestionIds(questions) :
          \E b1, b2 \in ParBodies(q) :
              reqs' = <<NewReq(nreq + 1, "par", "PUT", b1, Tables),
                        NewReq(nreq + 2, "par", "PUT", b2, Tables)>>
    /\ UNCHANGED <<storeVars, last, uiVars>>

InitPar ==
    /\ \E st \in SeedStores : questions = st.q /\ question_options = st.o
    /\ reqs = <<>>
    /\ nreq = 0
    /\ last = NoSummary
    /\ uiQuestions = <<>>
    /\ editModalOpen = FALSE
    /\ selectedQuestion = <<>>
    /\ nedits = 0

NextPar ==
    \/ ClientPutPair
    \/ \E k \in Idx : PutValidate(k)
    \/ \E k \in Idx : PutUpdateQuestion(k)
    \/ \E k \in Idx : PutUpsertOption(k)
    \/ \E k \in Idx : PutDeleteStale(k)
    \/ \E k \in Idx : StoreError(k)

SpecPar == InitPar /\ [][NextPar]_vars

----------------------------------------------------------------------------
(* Properties of the API *)

\* a label that is empty or made of whitespace only
IsBlank(l) == \A i \in 1..Len(l) : l[i] \in Whitespace

Done(k) == reqs[k].pc = "done"

\* the tables are as they were when request r was received
Untouched(r) == questions = r.pre.q /\ question_options = r.pre.o

\* option row o holds what incoming option x asks for
Matches(o, x) ==
    /\ o.label = x.label
    /\ o.next_question_id = Coalesce(x.next_question_id, Null)
    /\ o.price_modifier = Coalesce(x.price_modifier, 0)

\* C1: a list that follows a successful create of a question without
\* options shows that question with an empty options array.
C1_CreateThenListShowsEmptyOptions ==
    \A k \in Idx :
        LET r == reqs[k] IN
        (/\ Done(k) /\ r.method = "GET" /\ r.status = 200
         /\ last.method = "POST" /\ last.status = 201 /\ last.nopts = 0)
        => \E i \in 1..Len(r.out) :
              /\ r.out[i].id = last.qId
              /\ Len(r.out[i].options) = 0

\* C2 as stated: every POST or PUT carrying a blank option label is answered
\* 400 'Option labels cannot be empty' and writes nothing.
C2_BlankLabelAlwaysBlankLabelError ==
    \A k \in Idx :
        LET r == reqs[k] IN
        (/\ Done(k) /\ r.method \in {"POST", "PUT"}
         /\ \E i \in 1..Len(Opts(r.body)) : IsBlank(Opts(r.body)[i].label))
        => /\ r.status = 400
           /\ r.error = "Option labels cannot be empty"
           /\ Untouched(r)

\* C2 amended: a POST, or a PUT that carries an id, with a blank option label
\* at any position is answered 400 'Option labels cannot be empty'; a PUT
\* without id is answered 400 'id is required for PUT'; either way nothing
\* is written.
C2_BlankLabelRejected ==
    \A k \in Idx :
        LET r == reqs[k] IN
        (/\ Done(k) /\ r.method \in {"POST", "PUT"}
         /\ \E i \in 1..Len(Opts(r.body)) : IsBlank(Opts(r.body)[i].label))
        => /\ r.status = 400
           /\ r.nDone = 0
           /\ Untouched(r)
           /\ r.error = IF r.method = "PUT" /\ r.body.id = Undefined
                        THEN "id is required for PUT"
                        ELSE "Option labels cannot be empty"

C2_Witness ==
    \E k \in Idx :
        LET r == reqs[k] IN
        /\ Done(k) /\ r.method = "PUT" /\ r.status = 400
        /\ r.body.id \in QuestionIds(questions)
        /\ Len(Opts(r.body)) = 2
        /\ ~IsBlank(Opts(r.body)[1].label)
        /\ IsBlank(Opts(r.body)[2].label)
        /\ Opts(r.body)[2].label # <<>>

\* the case of C3: a successful PUT of an existing question with a non-empty
\* options array whose id-carrying options name rows of that question
C3_Case(r) ==
    /\ r.pc = "done" /\ r.method = "PUT" /\ r.status = 200
    /\ r.body.id \in QuestionIds(r.pre.q)
    /\ Len(Opts(r.body)) > 0
    /\ \A i \in 1..Len(Opts(r.body)) :
          Opts(r.body)[i].id # Undefined
          => Opts(r.body)[i].id \in OptionIds(OptionsOf(r.pre.o, r.body.id))

C3_DistinctIds(r) ==
    \A i, j \in 1..Len(Opts(r.body)) :
        (i # j /\ Opts(r.body)[i].id # Undefined)
        => Opts(r.body)[i].id # Opts(r.body)[j].id

\* the option rows of the question are one row per incoming option
C3_Reconciled(r) ==
    LET opts == Opts(r.body)
        mine == OptionsOf(question_options, r.body.id)
        before == OptionsOf(r.pre.o, r.body.id)
        withId == {i \in 1..Len(opts) : opts[i].id # Undefined}
        sent == {opts[i].id : i \in withId}
    IN  /\ Cardinality(mine) = Len(opts)
        /\ \A i \in withId :
              \E o \in mine : o.id = opts[i].id /\ Matches(o, opts[i])
        /\ \A i \in (1..Len(opts)) \ withId :
              \E o \in mine :
                  o.id \notin OptionIds(r.pre.o) /\ Matches(o, opts[i])
        /\ Cardinality(OptionIds(mine) \ OptionIds(r.pre.o))
              = Len(opts) - Cardinality(withId)
        /\ \A o \in before :
              o.id \notin sent => o.id \notin OptionIds(question_options)

\* C3 as stated: after a successful PUT of an existing question with a
\* non-empty options array whose id-carrying options name rows of that
\* question, its option rows are one row per incoming option: the
\* id-carrying ones updated in place, the others inserted under fresh ids,
\* and every row whose id was not sent deleted.
C3_UpdateReplacesOptionSet ==
    \A k \in Idx : C3_Case(reqs[k]) => C3_Reconciled(reqs[k])

\* C3 amended: as stated, for requests whose id-carrying options carry
\* pairwise distinct ids.
C3_UpdateReplacesOptionSetDistinctIds ==
    \A k \in Idx :
        (C3_Case(reqs[k]) /\ C3_DistinctIds(reqs[k]))
        => C3_Reconciled(reqs[k])

\* [A, B] updated to [{id: id(A), label: 'A2'}]
C3_Witness ==
    \E k \in Idx :
        LET r == reqs[k] IN
        /\ C3_Case(r) /\ Len(Opts(r.body)) = 1
        /\ Opts(r.body)[1].id # Undefined
        /\ Cardinality(OptionsOf(r.pre.o, r.body.id)) = 2
        /\ OptionRow(r.pre.o, Opts(r.body)[1].id).label
              # Opts(r.body)[1].label

AllCarryIds(body) ==
    \A i \in 1..Len(Opts(body)) :
        Opts(body)[i].id # Undefined /\ Opts(body)[i].id # Null

\* C4: a PUT whose options all carry ids, submitted a second time right
\* after it succeeded, leaves both tables as the first submission left them.
C4_UpdateIdempotent ==
    \A k \in Idx :
        LET r == reqs[k] IN
        (/\ Done(k) /\ r.method = "PUT" /\ r.status = 200
         /\ r.first.set /\ AllCarryIds(r.body))
        => /\ questions = r.first.q
           /\ question_options = r.first.o

C4_Witness ==
    \E k \in Idx :
        LET r == reqs[k] IN
        /\ Done(k) /\ r.method = "PUT" /\ r.status = 200
        /\ r.first.set /\ AllCarryIds(r.body)
        /\ Len(Opts(r.body)) = 2
        /\ r.body.id \in QuestionIds(questions)
        /\ r.nDone = 4

\* C5: a PUT whose body carries no integer id is answered 400 before any
\* statement runs, and writes nothing.
C5_NonIntegerIdRejected ==
    \A k \in Idx :
        LET r == reqs[k] IN
        (Done(k) /\ r.method = "PUT" /\ r.body.id \in {Undefined, Null})
        => r.status = 400 /\ r.nDone = 0 /\ Untouched(r)

\* C6: a PUT of an existing question with no options, once its UPDATE has
\* run, answers {ok: true} without running another statement; the question
\* row holds the scalars sent and no option row has changed.
C6_EmptyOptionsKeepsOptions ==
    \A k \in Idx :
        LET r == reqs[k] IN
        (/\ Done(k) /\ r.method = "PUT" /\ Len(Opts(r.body)) = 0
         /\ r.body.id \in QuestionIds(r.pre.q))
        => /\ question_options = r.pre.o
           /\ r.nDone >= 1
              => /\ r.status = 200 /\ r.nDone = 1
                 /\ [id |-> r.body.id, text |-> r.body.text,
                     type |-> r.body.type,
                     next_question_id |->
                        Coalesce(r.body.next_question_id, Null)]
                       \in questions

C6_Witness ==
    \E k \in Idx :
        LET r == reqs[k] IN
        /\ Done(k) /\ r.method = "PUT" /\ r.status = 200
        /\ Len(Opts(r.body)) = 0
        /\ OptionsOf(r.pre.o, r.body.id) # {}
        /\ questions # r.pre.q

\* C7: every option row belongs to an existing question.
C7_NoOrphanOptions ==
    \A o \in question_options : o.question_id \in QuestionIds(questions)

\* a question that had options has been deleted
C7_Witness ==
    \E k \in Idx :
        LET r == reqs[k] IN
        /\ Done(k) /\ r.method = "DELETE" /\ r.status = 200
        /\ r.body.id \in QuestionIds(r.pre.q)
        /\ OptionsOf(r.pre.o, r.body.id) # {}

Min(a, b) == IF a < b THEN a ELSE b

RECURSIVE C9_Upserted(_, _, _)
\* question_options after the first n options of body were upserted into os
C9_Upserted(pre, body, n) ==
    IF n = 0 THEN pre.o
    ELSE LET o == Opts(body)[n] IN
         UpsertOption(pre.q, C9_Upserted(pre, body, n - 1),
                      Coalesce(o.id, Null), body.id, o.label,
                      Coalesce(o.next_question_id, Null),
                      Coalesce(o.price_modifier, 0)).o

\* what a POST that failed after nDone statements has left in the store
C9_PostPartial(r) ==
    LET opts == Opts(r.body)
        mine == OptionsOf(question_options, r.qId)
        ids == SortedSeq(OptionIds(mine))
    IN  IF r.nDone = 0 THEN Untouched(r)
        ELSE /\ r.qId \notin QuestionIds(r.pre.q)
             /\ questions = r.pre.q \cup
                   {[id |-> r.qId, text |-> r.body.text,
                     type |-> r.body.type,
                     next_question_id |->
                        Coalesce(r.body.next_question_id, Null)]}
             /\ Len(ids) = Min(r.nDone - 1, Len(opts))
             /\ \A j \in 1..Len(ids) :
                   Matches(OptionRow(mine, ids[j]), opts[j])
             /\ question_options \ mine = r.pre.o

\* what a PUT that failed after nDone statements has left in the store
C9_PutPartial(r) ==
    IF r.nDone = 0 THEN Untouched(r)
    ELSE /\ r.nDone <= Len(Opts(r.body)) + 1
         /\ questions = UpdateQuestion(r.pre.q, r.body.id, r.body.text,
                            r.body.type,
                            Coalesce(r.body.next_question_id, Null))
         /\ question_options = C9_Upserted(r.pre, r.body, r.nDone - 1)
         /\ OptionIds(r.pre.o) \subseteq OptionIds(question_options)

\* C9: a store error in a POST or PUT is answered 500, ends the request at
\* the failing statement and keeps what the earlier statements wrote: for a
\* POST the question row with the options inserted so far, a prefix of the
\* list sent; and a POST writes no option row before its question row.
C9_StoreErrorAbortsWithoutRollback ==
    \A k \in Idx :
        LET r == reqs[k] IN
        /\ (Done(k) /\ r.error = "store" /\ r.method = "POST")
              => r.status = 500 /\ C9_PostPartial(r)
        /\ (Done(k) /\ r.error = "store" /\ r.method = "PUT")
              => r.status = 500 /\ C9_PutPartial(r)
        /\ (r.method = "POST" /\ r.pre.set /\ r.nDone = 0)
              => question_options = r.pre.o

\* a POST failed at its second option: the question and the first are kept
C9_Witness ==
    \E k \in Idx :
        LET r == reqs[k] IN
        /\ Done(k) /\ r.method = "POST" /\ r.status = 500
        /\ r.error = "store"
        /\ Len(Opts(r.body)) = 2 /\ r.nDone = 2
        /\ Cardinality(OptionsOf(question_options, r.qId)) = 1

\* C12: a PUT of question Q leaves every option row of another question as
\* it was when the request was received: same label, next_question_id,
\* price_modifier and question_id, and not deleted.
C12_UpdateTouchesOnlyOwnOptions ==
    \A k \in Idx :
        LET r == reqs[k] IN
        (Done(k) /\ r.method = "PUT")
        => \A o \in r.pre.o :
              o.question_id # r.body.id => o \in question_options

RECURSIVE SerialUpserts(_, _, _, _)
\* step 2 of PUT run on its own from option n on: the option table and the
\* ids seen once every option of body is upserted, or ok = FALSE at the
\* first statement that fails
SerialUpserts(qs, acc, body, n) ==
    IF n > Len(Opts(body)) THEN acc
    ELSE LET o == Opts(body)[n]
             res == UpsertOption(qs, acc.o, Coalesce(o.id, Null), body.id,
                                 o.label,
                                 Coalesce(o.next_question_id, Null),
                                 Coalesce(o.price_modifier, 0))
         IN  IF ~res.ok THEN [acc EXCEPT !.ok = FALSE]
             ELSE SerialUpserts(qs,
                      [ok |-> TRUE, o |-> res.o,
                       seenIds |-> Append(acc.seenIds,
                                      Coalesce(o.id, res.lastInsertRowid))],
                      body, n + 1)

\* the tables a PUT of body leaves when it runs on tables t with no other
\* request in between and no store error injected
SerialPut(t, body) ==
    LET qs == UpdateQuestion(t.q, body.id, body.text, body.type,
                             Coalesce(body.next_question_id, Null))
        up == SerialUpserts(qs, [ok |-> TRUE, o |-> t.o, seenIds |-> <<>>],
                            body, 1)
    IN  [ok |-> up.ok, q |-> qs,
         o |-> IF up.ok /\ Len(up.seenIds) > 0
               THEN DeleteOptionsNotIn(up.o, body.id, up.seenIds)
               ELSE up.o]

\* what the option rows of question qid hold, whatever their ids
C13_Contents(os, qid) ==
    {[label |-> o.label, next_question_id |-> o.next_question_id,
      price_modifier |-> o.price_modifier] : o \in OptionsOf(os, qid)}

\* two updates of one existing question, sent together, have both answered
\* {ok: true}
C13_BothOk(a, b) ==
    /\ a # b
    /\ reqs[a].origin = "par" /\ reqs[b].origin = "par"
    /\ Done(a) /\ reqs[a].status = 200
    /\ Done(b) /\ reqs[b].status = 200
    /\ reqs[a].body.id = reqs[b].body.id
    /\ reqs[a].body.id \in QuestionIds(reqs[a].first.q)

\* C13: when two PUTs of one question, each with options, run with their
\* statements interleaved and both answer {ok: true}, the question is left
\* with at least one option row, and its option rows hold what they would
\* hold had the two requests run one after the other in one of the two
\* orders.
C13_ConcurrentUpdatesSerializable ==
    \A a, b \in Idx :
        C13_BothOk(a, b)
        => LET qid == reqs[a].body.id
               t0 == reqs[a].first
               ab == SerialPut(SerialPut(t0, reqs[a].body), reqs[b].body)
               ba == SerialPut(SerialPut(t0, reqs[b].body), reqs[a].body)
               now == C13_Contents(question_options, qid)
           IN  /\ OptionsOf(question_options, qid) # {}
               /\ \/ now = C13_Contents(ab.o, qid)
                  \/ now = C13_Contents(ba.o, qid)

----------------------------------------------------------------------------
(* Properties of the admin page *)

SavesInFlight == {k \in Idx : reqs[k].origin = "save"}
Rids(rs) == {rs[i].rid : i \in 1..Len(rs)}

\* C8: at most one save request of the page is in flight, from the moment
\* saveQuestion issues it until its response is handled.
C8_AtMostOneSaveInFlight == Cardinality(SavesInFlight) <= 1

\* the step handles the response of save request r
C10_Handled(r) ==
    r.origin = "save" /\ r.pc = "done" /\ r.rid \notin Rids(reqs')

\* the step issues a fetch of the list
C10_Refetched ==
    \E j \in 1..Len(reqs') :
        /\ reqs'[j].origin = "fetch"
        /\ reqs'[j].rid \notin Rids(reqs)

\* C10: handling the response of a save closes the modal and fetches the
\* list again if and only if the response is successful; otherwise the
\* modal and the working copy are left as they are and no fetch is issued.
C10_CloseAndRefetchIffOk ==
    [][\A k \in Idx :
          C10_Handled(reqs[k])
          => IF Ok(reqs[k].status)
             THEN /\ editModalOpen' = FALSE
                  /\ C10_Refetched
                  /\ selectedQuestion' = selectedQuestion
             ELSE /\ editModalOpen' = editModalOpen
                  /\ selectedQuestion' = selectedQuestion
                  /\ uiQuestions' = uiQuestions
                  /\ ~C10_Refetched]_vars

\* a save has been answered 500 and handled: the modal is still open on the
\* working copy and nothing is in flight
C10_Witness ==
    /\ last.method \in {"POST", "PUT"} /\ last.status = 500
    /\ editModalOpen /\ selectedQuestion # <<>>
    /\ reqs = <<>>

\* the step is one of the edit handlers: it counts as an edit of the form,
\* opens the modal or replaces the working copy
C11_EditStep ==
    \/ nedits' # nedits
    \/ ~editModalOpen /\ editModalOpen'
    \/ selectedQuestion' # selectedQuestion

\* the write requests the step issues
C11_WritesIssued ==
    {j \in 1..Len(reqs') :
        /\ reqs'[j].rid \notin Rids(reqs)
        /\ reqs'[j].method \in {"POST", "PUT", "DELETE"}}

\* C11: the edit handlers (handleInputChange, handleOptionChange, addOption,
\* removeOption, openEditModal, openAddModal) issue no request and leave the
\* fetched list and the store unchanged; a write request is issued only by
\* saveQuestion, carries the working copy, and is issued only when no option
\* of the working copy has a label that is blank after trimming.
C11_EditsLocalSaveValidated ==
    [][/\ C11_EditStep
            => /\ reqs' = reqs
               /\ uiQuestions' = uiQuestions
               /\ questions' = questions
               /\ question_options' = question_options
       /\ \A j \in C11_WritesIssued :
             /\ reqs'[j].origin = "save"
             /\ FormShown
             /\ reqs'[j].body = Stringify(Selected)
             /\ \A i \in 1..Len(Selected.options) :
                   ~IsBlank(Selected.options[i].label)
             /\ selectedQuestion' = selectedQuestion
             /\ uiQuestions' = uiQuestions]_vars

\* a fetched question was edited in the form and saved: the write is in
\* flight with the edited options while the list still shows the fetched ones
C11_Witness ==
    \E k \in Idx :
        /\ reqs[k].origin = "save" /\ reqs[k].pc = "sent"
        /\ reqs[k].method = "PUT"
        /\ nedits > 0
        /\ \E i \in 1..Len(uiQuestions) :
              /\ uiQuestions[i].id = reqs[k].body.id
              /\ uiQuestions[i].options # reqs[k].body.options

====
